---- MODULE Spec2Model ----
(***************************************************************************)
(* Minimax Script Voicer: the batch voice synthesis pipeline.              *)
(*   App (src/unnamed/part_003): the work item store (items), the          *)
(*     scheduler processBatch, the upload handler and the operator's       *)
(*     controls;                                                           *)
(*   generateSpeech / hexToBytes (src/services/minimax.ts): the synthesis  *)
(*     client adapter;                                                     *)
(*   parseCSV (src/unnamed/part_002): row ingestion.                       *)
(*                                                                         *)
(* JavaScript runs every handler to completion, so one action is one task: *)
(* the code from an event or a promise resolution up to the next await.    *)
(* Strings whose characters matter (credentials, CSV fields, hex audio)    *)
(* are sequences of one-character strings; an optional value is a          *)
(* sequence of length at most one (undefined is the empty sequence).       *)
(***************************************************************************)
EXTENDS Integers, Sequences, FiniteSets, TLC

VARIABLES
    items,          \* useState<ProcessingItem[]>: the work item store
    isProcessing,   \* useState(false)
    progress,       \* useState({current, total})
    error,          \* useState<string | null>
    apiKey,         \* useState: the API Key input
    groupId,        \* useState: the Group ID input
    now,            \* Date.now(), in clock ticks
    parsing,        \* number of parseCSV promises not yet settled
    pendingItems,   \* processBatch: the items it selected (item snapshots)
    processedCount, \* processBatch: let processedCount
    config,         \* processBatch: the {apiKey, groupId} its closure holds
    call,           \* the generateSpeech invocation in progress, if any
    objectURLs,     \* the object URLs created and not revoked: URL n -> Blob
    calls,          \* history: the adapter invocations of the latest run
    replaced        \* history: setItems replaced the store since the run began

vars == << items, isProcessing, progress, error, apiKey, groupId, now, parsing,
           pendingItems, processedCount, config, call, objectURLs, calls,
           replaced >>

-----------------------------------------------------------------------------
(* Bounds of the model *)

\* Date.now() takes the values 0..MaxNow
MaxNow == 1
\* at most MaxUrls object URLs are created in one behaviour
MaxUrls == 2
\* at most MaxParsing file reads are in progress at once
MaxParsing == 1

-----------------------------------------------------------------------------
(* Values *)

undefined == << >>
Some(v) == << v >>
\* JavaScript truthiness of an optional string: undefined and "" are falsy
Truthy(opt) == opt # undefined /\ opt[1] # << >>

RECURSIVE TrimStart(_)
TrimStart(s) ==
    IF s # << >> /\ Head(s) = " " THEN TrimStart(Tail(s)) ELSE s

RECURSIVE TrimEnd(_)
TrimEnd(s) ==
    IF s # << >> /\ s[Len(s)] = " " THEN TrimEnd(SubSeq(s, 1, Len(s) - 1)) ELSE s

\* String.prototype.trim
Trim(s) == TrimEnd(TrimStart(s))

\* row['X']?.trim()
OptTrim(opt) == IF opt = undefined THEN undefined ELSE Some(Trim(opt[1]))

-----------------------------------------------------------------------------
(* hexToBytes *)

HexDigits == << "0", "1", "2", "3", "4", "5", "6", "7", "8", "9",
                "a", "b", "c", "d", "e", "f" >>
UpperDigits == << "0", "1", "2", "3", "4", "5", "6", "7", "8", "9",
                  "A", "B", "C", "D", "E", "F" >>

IsHexDigit(c) == \E d \in 1..16 : HexDigits[d] = c \/ UpperDigits[d] = c

DigitValue(c) ==
    (CHOOSE d \in 1..16 : HexDigits[d] = c \/ UpperDigits[d] = c) - 1

NaN == -1

\* parseInt(s, 16) of a string s of one or two characters, none of them
\* white space, a sign or "x": the value of its longest prefix of hex digits,
\* NaN when that prefix is empty
ParseInt16(s) ==
    IF s = << >> \/ ~IsHexDigit(s[1]) THEN NaN
    ELSE IF Len(s) = 1 \/ ~IsHexDigit(s[2]) THEN DigitValue(s[1])
    ELSE 16 * DigitValue(s[1]) + DigitValue(s[2])

\* the store of a number into a Uint8Array element: NaN is stored as 0
ToUint8(n) == IF n = NaN THEN 0 ELSE n % 256

\* a variant of hexToBytes that reads one character of each pair
hexToBytesOneDigit(hex) ==
    [k \in 1..(Len(hex) \div 2) |->
        ToUint8(ParseInt16(SubSeq(hex, 2 * k - 1, 2 * k - 1)))]

\* new Uint8Array(hex.length / 2) truncates a fractional length; a store past
\* the end of the array is ignored
hexToBytes(hex) ==
    [k \in 1..(Len(hex) \div 2) |->
        ToUint8(ParseInt16(SubSeq(hex, 2 * k - 1, 2 * k)))]

-----------------------------------------------------------------------------
(* generateSpeech *)

Blob(bytes, type) == [bytes |-> bytes, type |-> type]

\* an optional plain string (a URL): undefined and "" are falsy
TruthyStr(opt) == opt # undefined /\ opt[1] # ""

\* the message of the TypeError a rejected fetch carries
FetchFailed == << "Failed to fetch" >>

NoCall ==
    [pc |-> "none", request |-> undefined, fetches |-> 0, response |-> undefined,
     audioRes |-> undefined, blob |-> undefined, message |-> undefined]

\* lines 19-50: the trimmed credentials, the request target and headers, the
\* payload, and the first fetch
Request(text, voiceId, cfg, modelName) ==
    [url |-> [base |-> "https://api.minimax.chat/v1/t2a_v2",
              GroupId |-> Trim(cfg.groupId)],
     Authorization |-> [scheme |-> "Bearer", token |-> Trim(cfg.apiKey)],
     body |-> [model |-> modelName, text |-> text, stream |-> FALSE,
               voice_setting |-> [voice_id |-> voiceId, speed |-> 1, vol |-> 1,
                                  pitch |-> 0],
               audio_setting |-> [sample_rate |-> 32000, bitrate |-> 128000,
                                  format |-> "mp3", channel |-> 1]]]

Invoke(text, voiceId, cfg, modelName) ==
    [NoCall EXCEPT !.pc = "fetch",
                   !.request = Some(Request(text, voiceId, cfg, modelName)),
                   !.fetches = 1]

Throw(c, msg) == [c EXCEPT !.pc = "thrown", !.message = Some(msg)]
Return(c, blob) == [c EXCEPT !.pc = "returned", !.blob = Some(blob)]

\* lines 43-50: the first fetch rejects (no response); the catch rethrows
OnFetchRejected(c) == Throw(c, FetchFailed)

\* json.data?.audio and json.data?.audio_file
DataAudio(json) == IF json.data = undefined THEN undefined ELSE json.data[1].audio
DataAudioFile(json) ==
    IF json.data = undefined THEN undefined ELSE json.data[1].audio_file

\* a variant of OnResponse that looks for audio before the embedded status
OnResponseAudioFirst(c0, response) ==
    LET c == [c0 EXCEPT !.response = Some(response)] IN
    IF ~response.ok
    THEN Throw(c, << "API Error: ", response.status, " ", response.statusText >>)
    ELSE IF Truthy(DataAudio(response.json))
    THEN Return(c, Blob(hexToBytes(DataAudio(response.json)[1]), "audio/mp3"))
    ELSE IF response.json.base_resp.status_code # 0
    THEN Throw(c, << "Minimax Error: ", response.json.base_resp.status_msg >>)
    ELSE IF TruthyStr(DataAudioFile(response.json))
    THEN [c EXCEPT !.pc = "audio_fetch", !.fetches = c.fetches + 1]
    ELSE Throw(c, << "No audio data received in response" >>)

\* lines 52-72: the first fetch resolves with response
OnResponse(c0, response) ==
    LET c == [c0 EXCEPT !.response = Some(response)] IN
    IF ~response.ok
    THEN Throw(c, << "API Error: ", response.status, " ", response.statusText >>)
    ELSE IF response.json.base_resp.status_code # 0
    THEN Throw(c, << "Minimax Error: ", response.json.base_resp.status_msg >>)
    ELSE IF Truthy(DataAudio(response.json))
    THEN Return(c, Blob(hexToBytes(DataAudio(response.json)[1]), "audio/mp3"))
    ELSE IF TruthyStr(DataAudioFile(response.json))
    THEN [c EXCEPT !.pc = "audio_fetch", !.fetches = c.fetches + 1]
    ELSE Throw(c, << "No audio data received in response" >>)

\* lines 68-69: the fetch of the audio URL resolves; its status is not read
OnAudioResponse(c, audioRes) ==
    Return([c EXCEPT !.audioRes = Some(audioRes)], Blob(audioRes.body, audioRes.type))

\* line 68: the fetch of the audio URL rejects
OnAudioRejected(c) == Throw(c, FetchFailed)

(* The responses of the synthesis service *)

Statuses ==
    { [ok |-> TRUE, status |-> "200", statusText |-> "OK"],
      [ok |-> FALSE, status |-> "500", statusText |-> "Internal Server Error"],
      [ok |-> FALSE, status |-> "429", statusText |-> "Too Many Requests"] }

BaseResps ==
    { [status_code |-> 0, status_msg |-> "success"],
      [status_code |-> 1002, status_msg |-> "rate limited"],
      [status_code |-> 1004, status_msg |-> "token not match group"] }

Hi == << "6", "8", "6", "9" >>

Audios == { undefined, Some(<< >>), Some(Hi), Some(<< "0", "A" >>) }

AudioUrl == "https://cdn.example/a.mp3"

AudioFiles == { undefined, Some(""), Some(AudioUrl) }

Datas ==
    { undefined } \cup
    { Some([audio |-> a, audio_file |-> f]) : a \in Audios, f \in AudioFiles }

Responses ==
    { [ok |-> s.ok, status |-> s.status, statusText |-> s.statusText,
       json |-> [base_resp |-> b, data |-> d]] :
         s \in Statuses, b \in BaseResps, d \in Datas }

\* the responses of the audio URL
AudioResponses ==
    { [ok |-> TRUE, status |-> "200", body |-> << 104, 105 >>, type |-> "audio/mp3"],
      [ok |-> FALSE, status |-> "404", body |-> << 52, 48, 52 >>,
       type |-> "text/html"] }

-----------------------------------------------------------------------------
(* parseCSV *)

\* lines 11-19: trim every field, keep the rows with text, voice_id and
\* Character truthy
CleanRow(row) ==
    [ShotNumber |-> OptTrim(row.ShotNumber), Character |-> OptTrim(row.Character),
     voice_id |-> OptTrim(row.voice_id), text |-> OptTrim(row.text),
     emotion |-> OptTrim(row.emotion)]

\* a variant of ValidRow that does not look at Character
ValidRowNoCharacter(row) == Truthy(row.text) /\ Truthy(row.voice_id)

ValidRow(row) == Truthy(row.text) /\ Truthy(row.voice_id) /\ Truthy(row.Character)

parseCSV(data) ==
    SelectSeq([k \in DOMAIN data |-> CleanRow(data[k])], ValidRow)

\* the records of the uploaded files
GoodRecord ==
    [ShotNumber |-> Some(<< "1" >>), Character |-> Some(<< " ", "N" >>),
     voice_id |-> Some(<< "v", " " >>), text |-> Some(<< "h", "i" >>),
     emotion |-> undefined]

BlankRecord == [GoodRecord EXCEPT !.text = Some(<< " " >>)]

Files ==
    { << >>, << BlankRecord >>, << GoodRecord >>,
      << GoodRecord, BlankRecord, GoodRecord >> }

-----------------------------------------------------------------------------
(* App *)

DEFAULT_MODEL == "speech-2.6-turbo"

null == "null"
NoValidData ==
    "No valid data found in CSV. Ensure headers: 'Shot Number', 'Character', 'voice_id', 'text'."
ParseFailed == "Failed to parse CSV file."
NoCredentials == "Please provide API Key and Group ID."

\* the values typed into the credential inputs
ApiKeys == { << >>, << " " >>, << "k" >> }
GroupIds == { << >>, << "g" >> }

NoConfig == [apiKey |-> << >>, groupId |-> << >>]

\* lines 33-37: the items of a parsed table
NewItems(rows, stamp) ==
    [k \in DOMAIN rows |->
        [id |-> [index |-> k - 1, stamp |-> stamp], row |-> rows[k],
         status |-> "idle", audioUrl |-> undefined, errorMessage |-> undefined]]

\* what the loop reads of a selected item, and its status when selected
Snapshot(i) == [id |-> i.id, row |-> i.row, status |-> i.status]

\* a variant of Selected that leaves failed items out
SelectedIdleOnly(i) == i.status = "idle"
\* a variant of Selected that takes every item not in flight
SelectedNotLoading(i) == i.status # "loading"

\* line 53
Selected(i) == i.status = "idle" \/ i.status = "error"

\* a variant of Loading that keeps the prior error
LoadingKeepsError(i) == [i EXCEPT !.status = "loading"]
\* a variant of Success that does not attach the URL
SuccessNoUrl(i, url) == [i EXCEPT !.status = "success"]
\* a variant of Failure that does not set the status
FailureKeepsStatus(i, msg) == [i EXCEPT !.errorMessage = Some(msg)]

\* line 61
Loading(i) == [i EXCEPT !.status = "loading", !.errorMessage = undefined]
\* line 73
Success(i, url) == [i EXCEPT !.status = "success", !.audioUrl = Some(url)]
\* line 77
Failure(i, msg) == [i EXCEPT !.status = "error", !.errorMessage = Some(msg)]

\* a variant of SetLoading that does not match on the id
SetLoadingAll(prev, id) ==
    [k \in DOMAIN prev |-> IF Selected(prev[k]) THEN Loading(prev[k]) ELSE prev[k]]

\* line 61: prev.map(i => i.id === item.id ? {...} : i)
SetLoading(prev, id) ==
    [k \in DOMAIN prev |-> IF prev[k].id = id THEN Loading(prev[k]) ELSE prev[k]]

\* line 73
SetSuccess(prev, id, url) ==
    [k \in DOMAIN prev |->
        IF prev[k].id = id THEN Success(prev[k], url) ELSE prev[k]]

\* a variant of SetFailure that does not match on the id
SetFailureAll(prev, id, msg) == [k \in DOMAIN prev |-> Failure(prev[k], msg)]

\* line 77
SetFailure(prev, id, msg) ==
    [k \in DOMAIN prev |->
        IF prev[k].id = id THEN Failure(prev[k], msg) ELSE prev[k]]

\* a variant of GenerateEnabled that does not look at isProcessing
GenerateEnabledWhileProcessing ==
    /\ Len(items) > 0
    /\ ~(apiKey = << >> \/ groupId = << >>)

\* the Generate Audio button (lines 188-199) is rendered with the data table
\* (line 155) and disabled as line 190 says
GenerateEnabled ==
    /\ Len(items) > 0
    /\ ~(isProcessing \/ (apiKey = << >> \/ groupId = << >>))

\* a history record of one adapter invocation
Called(id) ==
    [id |-> id, outcome |-> "pending", url |-> undefined, message |-> undefined]

\* Lines 59-84 from the top of the loop: with n items processed, the store
\* being its and the closure holding sel and cfg, either the next item
\* becomes loading and generateSpeech runs up to its first await, or the
\* loop is over and line 84 runs.
Iterate(its, sel, n, cfg, log) ==
    IF n < Len(sel)
    THEN /\ items' = SetLoading(its, sel[n + 1].id)
         /\ call' = Invoke(sel[n + 1].row.text[1], sel[n + 1].row.voice_id[1],
                           cfg, DEFAULT_MODEL)
         /\ calls' = Append(log, Called(sel[n + 1].id))
         /\ isProcessing' = TRUE
         /\ config' = cfg
    ELSE /\ items' = its
         /\ call' = NoCall
         /\ calls' = log
         /\ isProcessing' = FALSE
         /\ config' = NoConfig

\* lines 46-62: a click on Generate Audio
ProcessBatch ==
    /\ GenerateEnabled
    /\ IF apiKey = << >> \/ groupId = << >>
       THEN /\ error' = NoCredentials
            /\ UNCHANGED << items, isProcessing, progress, pendingItems,
                            processedCount, config, call, calls, replaced >>
       ELSE LET sel == SelectSeq(items, Selected) IN
            /\ pendingItems' = [k \in DOMAIN sel |-> Snapshot(sel[k])]
            /\ progress' = [current |-> 0, total |-> Len(sel)]
            /\ processedCount' = 0
            /\ replaced' = FALSE
            /\ Iterate(items, sel, 0, [apiKey |-> apiKey, groupId |-> groupId],
                       << >>)
            /\ UNCHANGED error
    /\ UNCHANGED << apiKey, groupId, now, parsing, objectURLs >>

\* the item the loop is at
Current == pendingItems[processedCount + 1]

Settled(log, outcome, url, msg) ==
    [log EXCEPT ![Len(log)] =
        [@ EXCEPT !.outcome = outcome, !.url = url, !.message = msg]]

\* lines 80-81, and the loop's next turn
Advance(its, log) ==
    /\ processedCount' = processedCount + 1
    /\ progress' = [progress EXCEPT !.current = processedCount + 1]
    /\ Iterate(its, pendingItems, processedCount + 1, config, log)

\* lines 70-73: generateSpeech returned blob
Resolved(blob) ==
    LET url == Len(objectURLs) + 1 IN
    /\ Len(objectURLs) < MaxUrls
    /\ objectURLs' = Append(objectURLs, blob)
    /\ Advance(SetSuccess(items, Current.id, url),
               Settled(calls, "returned", Some(url), undefined))

\* a variant of Rejected that leaves the loop on a failure
RejectedAborts(msg) ==
    /\ objectURLs' = objectURLs
    /\ processedCount' = processedCount + 1
    /\ progress' = [progress EXCEPT !.current = processedCount + 1]
    /\ Iterate(SetFailure(items, Current.id, msg), pendingItems, Len(pendingItems),
               config, Settled(calls, "thrown", undefined, Some(msg)))

\* a variant of Rejected that does not publish the progress of a failure
RejectedUncounted(msg) ==
    /\ objectURLs' = objectURLs
    /\ processedCount' = processedCount + 1
    /\ progress' = progress
    /\ Iterate(SetFailure(items, Current.id, msg), pendingItems, processedCount + 1,
               config, Settled(calls, "thrown", undefined, Some(msg)))

\* lines 74-78: generateSpeech threw an Error with message msg
Rejected(msg) ==
    /\ objectURLs' = objectURLs
    /\ Advance(SetFailure(items, Current.id, msg),
               Settled(calls, "thrown", undefined, Some(msg)))

\* generateSpeech went on to c: it settled, or awaits the audio URL
Resume(c) ==
    /\ CASE c.pc = "returned" -> Resolved(c.blob[1])
         [] c.pc = "thrown" -> Rejected(c.message[1])
         [] OTHER -> /\ call' = c
                     /\ UNCHANGED << items, isProcessing, progress, processedCount,
                                     config, objectURLs, calls >>
    /\ UNCHANGED << error, apiKey, groupId, now, parsing, pendingItems, replaced >>

\* the responses the service gives during a batch: one of each kind
Response(status, code, data) ==
    CHOOSE r \in Responses :
        /\ r.status = status
        /\ r.json.base_resp.status_code = code
        /\ r.json.data = data

AppResponses ==
    { Response("500", 0, undefined),
      Response("200", 1002, Some([audio |-> Some(Hi), audio_file |-> undefined])),
      Response("200", 0, Some([audio |-> Some(Hi), audio_file |-> undefined])),
      Response("200", 0, Some([audio |-> undefined, audio_file |-> Some(AudioUrl)])),
      Response("200", 0, undefined) }

\* the await of line 43 ends: the fetch resolved
FetchResolves ==
    /\ isProcessing /\ call.pc = "fetch"
    /\ \E response \in AppResponses : Resume(OnResponse(call, response))

\* the await of line 43 ends: the fetch rejected
FetchRejects ==
    /\ isProcessing /\ call.pc = "fetch"
    /\ Resume(OnFetchRejected(call))

\* the responses of the audio URL during a batch
AppAudioResponses == { r \in AudioResponses : r.ok }

\* the await of line 68 ends: the fetch of the audio URL resolved
AudioFetchResolves ==
    /\ isProcessing /\ call.pc = "audio_fetch"
    /\ \E audioRes \in AppAudioResponses : Resume(OnAudioResponse(call, audioRes))

\* the await of line 68 ends: the fetch of the audio URL rejected
AudioFetchRejects ==
    /\ isProcessing /\ call.pc = "audio_fetch"
    /\ Resume(OnAudioRejected(call))

\* lines 21-27: a file is chosen in the upload section, which is rendered
\* while the store is empty (line 130)
HandleFileUpload ==
    /\ Len(items) = 0
    /\ parsing < MaxParsing
    /\ error' = null
    /\ parsing' = parsing + 1
    /\ UNCHANGED << items, isProcessing, progress, apiKey, groupId, now,
                    pendingItems, processedCount, config, call, objectURLs, calls,
                    replaced >>

\* lines 27-39: parseCSV resolved with the rows of the file
ParseResolves ==
    /\ parsing > 0
    /\ parsing' = parsing - 1
    /\ \E data \in Files :
         LET rows == parseCSV(data) IN
         IF Len(rows) = 0
         THEN /\ error' = NoValidData
              /\ UNCHANGED << items, replaced >>
         ELSE /\ items' = NewItems(rows, now)
              /\ replaced' = TRUE
              /\ UNCHANGED error
    /\ UNCHANGED << isProcessing, progress, apiKey, groupId, now, pendingItems,
                    processedCount, config, call, objectURLs, calls >>

\* lines 40-43: parseCSV rejected
ParseRejects ==
    /\ parsing > 0
    /\ parsing' = parsing - 1
    /\ error' = ParseFailed
    /\ UNCHANGED << items, isProcessing, progress, apiKey, groupId, now,
                    pendingItems, processedCount, config, call, objectURLs, calls,
                    replaced >>

\* a variant of Clear that also abandons the run in progress
ClearCancels ==
    /\ Len(items) > 0
    /\ items' = << >>
    /\ replaced' = TRUE
    /\ isProcessing' = FALSE
    /\ call' = NoCall
    /\ UNCHANGED << progress, error, apiKey, groupId, now, parsing, pendingItems,
                    processedCount, config, objectURLs, calls >>

\* line 201: the Clear button, rendered with the data table
Clear ==
    /\ Len(items) > 0
    /\ items' = << >>
    /\ replaced' = TRUE
    /\ UNCHANGED << isProcessing, progress, error, apiKey, groupId, now, parsing,
                    pendingItems, processedCount, config, call, objectURLs, calls >>

\* line 119
SetApiKey ==
    /\ \E v \in ApiKeys : apiKey' = v
    /\ UNCHANGED << items, isProcessing, progress, error, groupId, now, parsing,
                    pendingItems, processedCount, config, call, objectURLs, calls,
                    replaced >>

\* line 112
SetGroupId ==
    /\ \E v \in GroupIds : groupId' = v
    /\ UNCHANGED << items, isProcessing, progress, error, apiKey, now, parsing,
                    pendingItems, processedCount, config, call, objectURLs, calls,
                    replaced >>

\* time passes
Tick ==
    /\ now < MaxNow
    /\ now' = now + 1
    /\ UNCHANGED << items, isProcessing, progress, error, apiKey, groupId, parsing,
                    pendingItems, processedCount, config, call, objectURLs, calls,
                    replaced >>

\* lines 11-19 of App
Init ==
    /\ items = << >>
    /\ isProcessing = FALSE
    /\ progress = [current |-> 0, total |-> 0]
    /\ error = null
    /\ apiKey \in ApiKeys
    /\ groupId \in GroupIds
    /\ now = 0
    /\ parsing = 0
    /\ pendingItems = << >>
    /\ processedCount = 0
    /\ config = NoConfig
    /\ call = NoCall
    /\ objectURLs = << >>
    /\ calls = << >>
    /\ replaced = FALSE

Next ==
    \/ HandleFileUpload
    \/ ParseResolves
    \/ ParseRejects
    \/ ProcessBatch
    \/ FetchResolves
    \/ FetchRejects
    \/ AudioFetchResolves
    \/ AudioFetchRejects
    \/ Clear
    \/ SetApiKey
    \/ SetGroupId
    \/ Tick

Spec == Init /\ [][Next]_vars

-----------------------------------------------------------------------------
(* generateSpeech on its own: one invocation after another, over every *)
(* response of the service                                             *)

appVars == << items, isProcessing, progress, error, apiKey, groupId, now, parsing,
              pendingItems, processedCount, config, objectURLs, calls, replaced >>

\* lines 12-50: generateSpeech is called and runs up to its first await
GenerateSpeech ==
    /\ call.pc \in { "none", "returned", "thrown" }
    /\ \E k \in ApiKeys, g \in GroupIds :
         call' = Invoke(CleanRow(GoodRecord).text[1], CleanRow(GoodRecord).voice_id[1],
                        [apiKey |-> k, groupId |-> g], DEFAULT_MODEL)
    /\ UNCHANGED appVars

AdapterFetchResolves ==
    /\ call.pc = "fetch"
    /\ \E response \in Responses : call' = OnResponse(call, response)
    /\ UNCHANGED appVars

AdapterFetchRejects ==
    /\ call.pc = "fetch"
    /\ call' = OnFetchRejected(call)
    /\ UNCHANGED appVars

AdapterAudioFetchResolves ==
    /\ call.pc = "audio_fetch"
    /\ \E audioRes \in AudioResponses : call' = OnAudioResponse(call, audioRes)
    /\ UNCHANGED appVars

AdapterAudioFetchRejects ==
    /\ call.pc = "audio_fetch"
    /\ call' = OnAudioRejected(call)
    /\ UNCHANGED appVars

AdapterInit ==
    /\ Init
    /\ apiKey = << >>
    /\ groupId = << >>

AdapterNext ==
    \/ GenerateSpeech
    \/ AdapterFetchResolves
    \/ AdapterFetchRejects
    \/ AdapterAudioFetchResolves
    \/ AdapterAudioFetchRejects

SpecAdapter == AdapterInit /\ [][AdapterNext]_vars

-----------------------------------------------------------------------------
(* Properties of the scheduler, checked under Spec *)

\* the positions in the store of the item with this id
At(id) == { i \in DOMAIN items : items[i].id = id }

Ids(seq) == [k \in DOMAIN seq |-> seq[k].id]

Finished(status) == status = "success" \/ status = "error"

\* C1: once a run has completed, every item the run selected (the store not
\* having been replaced meanwhile) is in the store with status success or
\* error; none is left idle or loading.
C1_SelectedItemsSettled ==
    (~isProcessing /\ ~replaced) =>
        \A k \in DOMAIN pendingItems :
            /\ At(pendingItems[k].id) # { }
            /\ \A i \in At(pendingItems[k].id) : Finished(items[i].status)

\* a completed run over two items, the first ending failed, the second succeeded
C1_Witness ==
    /\ ~isProcessing /\ ~replaced
    /\ Len(pendingItems) = 2 /\ Len(items) = 2
    /\ items[1].status = "error" /\ items[2].status = "success"

\* C2: a failure of generateSpeech on one selected item makes that item error
\* with the failure's message and does not end the run: generateSpeech is
\* invoked once for each selected item, in order, up to the end of the
\* selection, and every item holds the outcome of its own invocation.
C2_FailureDoesNotAbort ==
    /\ Len(calls) <= Len(pendingItems)
    /\ \A k \in DOMAIN calls : calls[k].id = pendingItems[k].id
    /\ ~isProcessing => Len(calls) = Len(pendingItems)
    /\ ~replaced =>
         \A k \in DOMAIN calls : \A i \in At(calls[k].id) :
            /\ calls[k].outcome = "thrown" =>
                 /\ items[i].status = "error"
                 /\ items[i].errorMessage = calls[k].message
                 /\ calls[k].message # undefined
            /\ calls[k].outcome = "returned" =>
                 /\ items[i].status = "success"
                 /\ items[i].audioUrl = calls[k].url

\* a completed run whose first invocation threw and whose second returned
C2_Witness ==
    /\ ~isProcessing /\ ~replaced
    /\ Len(calls) = 2
    /\ calls[1].outcome = "thrown" /\ calls[2].outcome = "returned"
    /\ items[1].status = "error" /\ items[2].status = "success"

\* C3: the selected items are processed one at a time in row order: at most
\* one item is loading; while generateSpeech runs for the n-th selected item
\* every earlier invocation has settled, progress.current is n - 1, the
\* earlier selected items are success or error, and the later ones are as
\* they were selected.
C3_OneAtATime ==
    /\ Cardinality({ i \in DOMAIN items : items[i].status = "loading" }) <= 1
    /\ \A k \in DOMAIN pendingItems :
         k < Len(pendingItems) =>
            pendingItems[k].id.index < pendingItems[k + 1].id.index
    /\ \A k \in DOMAIN calls :
         calls[k].outcome = "pending" => (k = Len(calls) /\ call.pc # "none")
    /\ call.pc # "none" =>
         LET n == Len(calls) IN
         /\ n >= 1 /\ calls[n].outcome = "pending"
         /\ progress.current = n - 1
         /\ ~replaced =>
              \A k \in DOMAIN pendingItems : \A i \in At(pendingItems[k].id) :
                 /\ k < n => Finished(items[i].status)
                 /\ k = n => items[i].status = "loading"
                 /\ k > n => items[i].status = pendingItems[k].status

\* generateSpeech runs for the second selected item, the first having failed
C3_Witness ==
    /\ call.pc # "none" /\ ~replaced
    /\ Len(calls) = 2 /\ Len(items) = 2
    /\ items[1].status = "error" /\ items[2].status = "loading"
    /\ progress = [current |-> 1, total |-> 2]

IsPendingOrFailed(i) == i.status \in { "idle", "error" }

\* C4: a run selects exactly the items that are idle or error when it
\* starts, in row order; generateSpeech is invoked only for selected items;
\* and no step of the scheduler changes an item that is success. So a run
\* after a completed one invokes generateSpeech exactly for the failed items.
C4_RunSelectsPendingAndFailed ==
    /\ [][ProcessBatch =>
            Ids(pendingItems') = Ids(SelectSeq(items, IsPendingOrFailed))]_vars
    /\ [][(parsing' = parsing /\ Len(items') = Len(items)) =>
            \A i \in DOMAIN items :
                items[i].status = "success" => items'[i] = items[i]]_vars
    /\ [](\A k \in DOMAIN calls :
            /\ calls[k].id = pendingItems[k].id
            /\ pendingItems[k].status # "success")
    /\ [](~isProcessing => Len(calls) = Len(pendingItems))

\* a completed second run over two items: the first item had succeeded and
\* was left alone, the second had failed and was the only one invoked
C4_Witness ==
    /\ ~isProcessing /\ ~replaced
    /\ Len(items) = 2 /\ items[1].status = "success"
    /\ Len(calls) = 1 /\ calls[1].id = items[2].id
    /\ pendingItems[1].status = "error"
    /\ calls[1].outcome = "returned"

AllSucceeded ==
    Len(items) > 0 /\ \A i \in DOMAIN items : items[i].status = "success"

\* C5 as stated: a run over a store in which every item is success selects
\* nothing, invokes nothing and changes no state, the published progress
\* included.
C5_RerunChangesNothing ==
    [][(ProcessBatch /\ AllSucceeded) =>
          /\ pendingItems' = << >>
          /\ calls' = << >> /\ call' = NoCall
          /\ UNCHANGED << items, objectURLs, isProcessing, error, progress >>]_vars

\* C5, amended: a run over a store in which every item is success selects
\* nothing, invokes nothing and changes no item, handle or error; it sets
\* the published progress to current 0 of total 0.
C5_RerunChangesNoItem ==
    [][(ProcessBatch /\ AllSucceeded) =>
          /\ pendingItems' = << >>
          /\ calls' = << >> /\ call' = NoCall
          /\ UNCHANGED << items, objectURLs, isProcessing, error >>
          /\ progress' = [current |-> 0, total |-> 0]]_vars

\* the state after a run over a store in which every item has succeeded
C5_Witness ==
    /\ AllSucceeded /\ ~isProcessing /\ ~replaced
    /\ pendingItems = << >> /\ calls = << >>
    /\ progress = [current |-> 0, total |-> 0]
    /\ objectURLs # << >>

\* C6: an item that was error when a run selected it and for which
\* generateSpeech then returned is success, with the URL of that invocation
\* attached and no error message.
C6_RetryConverges ==
    ~replaced =>
        \A k \in DOMAIN calls : \A i \in At(calls[k].id) :
            (pendingItems[k].status = "error" /\ calls[k].outcome = "returned") =>
                /\ items[i].status = "success"
                /\ items[i].audioUrl # undefined
                /\ items[i].audioUrl = calls[k].url
                /\ items[i].errorMessage = undefined

\* a failed item was selected again, generateSpeech returned, the run is over
C6_Witness ==
    /\ ~isProcessing /\ ~replaced
    /\ \E k \in DOMAIN calls :
         /\ pendingItems[k].status = "error"
         /\ calls[k].outcome = "returned"
         /\ \E i \in At(calls[k].id) : items[i].status = "success"

\* C7: in every state every item of the store has an audio URL exactly when
\* it is success and an error message exactly when it is error.
C7_HandleIffSuccessErrorIffFailed ==
    \A i \in DOMAIN items :
        /\ items[i].audioUrl # undefined <=> items[i].status = "success"
        /\ items[i].errorMessage # undefined <=> items[i].status = "error"

\* an item that had failed is loading again, next to an item that succeeded
C7_Witness ==
    /\ Len(items) = 2
    /\ items[1].status = "success" /\ items[1].audioUrl # undefined
    /\ items[2].status = "loading" /\ items[2].errorMessage = undefined
    /\ ~replaced /\ Len(pendingItems) = 1 /\ pendingItems[1].status = "error"

\* C8 as stated: every object URL that was created and not released is the
\* handle of an item of the store, and no two items share a handle.
C8_NoLiveHandleWithoutItem ==
    /\ \A u \in DOMAIN objectURLs :
         \E i \in DOMAIN items : items[i].audioUrl = Some(u)
    /\ \A i, j \in DOMAIN items :
         (i # j /\ items[i].audioUrl # undefined) =>
             items[i].audioUrl # items[j].audioUrl

\* C9 as stated: a run invoked with the api key or the group id empty once
\* trimmed surfaces the error, invokes nothing and changes no item and no
\* progress; a table with no valid row surfaces an error and creates no item.
C9_BatchErrorBlocksRun ==
    /\ [][(ProcessBatch /\ (Trim(apiKey) = << >> \/ Trim(groupId) = << >>)) =>
            /\ error' = NoCredentials
            /\ call' = call /\ calls' = calls
            /\ items' = items /\ progress' = progress]_vars
    /\ [][ParseResolves =>
            \/ items' = items /\ error' = NoValidData
            \/ Len(items') > 0 /\ error' = error]_vars

-----------------------------------------------------------------------------
(* Properties of generateSpeech, checked under SpecAdapter *)

\* the bytes the hex strings of Audios stand for
DecodedAudio(hex) ==
    CASE hex = Hi -> << 104, 105 >>
      [] hex = << "0", "A" >> -> << 10 >>

HasInlineAudio(json) ==
    /\ json.data # undefined
    /\ json.data[1].audio # undefined
    /\ json.data[1].audio[1] # << >>

HasAudioFile(json) ==
    /\ json.data # undefined
    /\ json.data[1].audio_file # undefined
    /\ json.data[1].audio_file[1] # ""

\* C10: whatever the response, the outcome of generateSpeech is decided in
\* this order: transport status not ok -> an error with the status code and
\* text; else embedded status_code not 0 -> an error with status_msg, also
\* when audio is present; else inline audio present (a non-empty string) ->
\* its decoded bytes as an audio/mp3 Blob; else audio URL present -> the bytes
\* fetched from it; else the no-audio error. A second fetch is issued only
\* in the audio URL case.
C10_OutcomeOrder ==
    IF call.response = undefined
    THEN call.fetches <= 1 /\ call.pc # "audio_fetch" /\ call.pc # "returned"
    ELSE
      LET r == call.response[1]
          json == r.json
      IN
      IF ~r.ok
      THEN /\ call.pc = "thrown" /\ call.fetches = 1
           /\ call.message = Some(<< "API Error: ", r.status, " ", r.statusText >>)
      ELSE IF json.base_resp.status_code # 0
      THEN /\ call.pc = "thrown" /\ call.fetches = 1
           /\ call.message = Some(<< "Minimax Error: ", json.base_resp.status_msg >>)
      ELSE IF HasInlineAudio(json)
      THEN /\ call.pc = "returned" /\ call.fetches = 1
           /\ call.blob = Some([bytes |-> DecodedAudio(json.data[1].audio[1]),
                                type |-> "audio/mp3"])
      ELSE IF HasAudioFile(json)
      THEN /\ call.fetches = 2
           /\ \/ call.pc = "audio_fetch"
              \/ /\ call.pc = "returned"
                 /\ call.audioRes # undefined
                 /\ call.blob[1].bytes = call.audioRes[1].body
              \/ /\ call.pc = "thrown"
                 /\ call.audioRes = undefined
                 /\ call.message = Some(FetchFailed)
      ELSE /\ call.pc = "thrown" /\ call.fetches = 1
           /\ call.message = Some(<< "No audio data received in response" >>)

\* the service answered 200 with status_code 1002 and inline audio, and
\* generateSpeech threw the service's message
C10_Witness ==
    /\ call.response # undefined
    /\ call.response[1].ok
    /\ call.response[1].json.base_resp.status_code = 1002
    /\ HasInlineAudio(call.response[1].json)
    /\ call.pc = "thrown"
    /\ call.message = Some(<< "Minimax Error: ", "rate limited" >>)

-----------------------------------------------------------------------------
(* Properties of the audio URL branch, checked under SpecAdapter *)

\* C11: when the response names an audio URL and the fetch of that URL ends
\* with a transport status that is not a success, generateSpeech does not
\* return a Blob: a call that returned after fetching the audio URL fetched
\* it with an ok status, and its Blob is not the body of a failed fetch.
C11_FailedAudioFetchYieldsNoBlob ==
    (call.pc = "returned" /\ call.audioRes # undefined) =>
        /\ call.audioRes[1].ok
        /\ \A r \in AudioResponses :
             ~r.ok => call.blob[1] # Blob(r.body, r.type)

-----------------------------------------------------------------------------
(* hexToBytes and the inline audio branch over encoded byte sequences and  *)
(* malformed strings                                                        *)

\* the byte sequences that are encoded have at most MaxBytes bytes
MaxBytes == 2

\* the bytes of the sequences longer than one byte
SampleBytes == { 0, 10, 104, 171, 255 }

\* the sequences over S of length at most n
SeqsUpTo(S, n) == UNION { [1..m -> S] : m \in 0..n }

\* every sequence of at most one byte, and the longer ones over SampleBytes
ByteSeqs == { << b >> : b \in 0..255 } \cup SeqsUpTo(SampleBytes, MaxBytes)

\* two digits per byte, most significant first
Encode(bytes, digits) ==
    [k \in 1..(2 * Len(bytes)) |->
        IF k % 2 = 1 THEN digits[(bytes[(k + 1) \div 2] \div 16) + 1]
        ELSE digits[(bytes[k \div 2] % 16) + 1]]

\* strings that are not a sequence of two-digit hex pairs: an odd length, or a
\* character that is not a hex digit
MalformedHex ==
    { << "6" >>, << "6", "8", "6" >>, << "z", "z" >>, << "6", "g" >>,
      << "g", "6" >>, << "6", "8", "z", "9" >>, << "6", "8", "6", "9", "0" >> }

HexInputs ==
    { Encode(b, HexDigits) : b \in ByteSeqs } \cup
    { Encode(b, UpperDigits) : b \in ByteSeqs } \cup MalformedHex

WellFormedHex(hex) ==
    /\ Len(hex) % 2 = 0
    /\ \A k \in DOMAIN hex : IsHexDigit(hex[k])

\* a 200 response with status_code 0 whose data holds the inline audio hex
InlineResponse(hex) ==
    [ok |-> TRUE, status |-> "200", statusText |-> "OK",
     json |-> [base_resp |-> [status_code |-> 0, status_msg |-> "success"],
               data |-> Some([audio |-> Some(hex), audio_file |-> undefined])]]

\* the await of line 43 ends with a response that holds inline audio
InlineFetchResolves ==
    /\ call.pc = "fetch"
    /\ \E hex \in HexInputs : call' = OnResponse(call, InlineResponse(hex))
    /\ UNCHANGED appVars

InlineNext ==
    \/ GenerateSpeech
    \/ InlineFetchResolves

SpecInline == AdapterInit /\ [][InlineNext]_vars

\* C12: an inline audio string that is not a sequence of two-digit hex pairs
\* never yields a Blob: a call that returned on inline audio was given a
\* well-formed hex string.
C12_MalformedHexYieldsNoBlob ==
    (call.pc = "returned" /\ HasInlineAudio(call.response[1].json)) =>
        WellFormedHex(call.response[1].json.data[1].audio[1])

(* hexToBytes on its own: applied once to each string of HexInputs *)

\* before the call: the argument is chosen
HexInit ==
    /\ call \in { [pc |-> "hexToBytes", hex |-> h, bytes |-> undefined] :
                    h \in HexInputs }
    /\ items = << >>
    /\ isProcessing = FALSE
    /\ progress = [current |-> 0, total |-> 0]
    /\ error = null
    /\ apiKey = << >>
    /\ groupId = << >>
    /\ now = 0
    /\ parsing = 0
    /\ pendingItems = << >>
    /\ processedCount = 0
    /\ config = NoConfig
    /\ objectURLs = << >>
    /\ calls = << >>
    /\ replaced = FALSE

\* lines 4-10: hexToBytes returns
HexToBytes ==
    /\ call.pc = "hexToBytes"
    /\ call' = [call EXCEPT !.pc = "returned", !.bytes = Some(hexToBytes(call.hex))]
    /\ UNCHANGED appVars

SpecHex == HexInit /\ [][HexToBytes]_vars

\* C13: hex round trip: for every byte sequence b (any length, 0 included),
\* hexToBytes of the encoding of b with two digits per byte, in lower or in
\* upper case, is exactly b.
C13_HexRoundTrip ==
    call.pc = "returned" =>
        \A b \in ByteSeqs :
            (call.hex = Encode(b, HexDigits) \/ call.hex = Encode(b, UpperDigits))
                => call.bytes = Some(b)

C13_Witness ==
    /\ call.pc = "returned"
    /\ call.hex = Encode(<< 171, 255 >>, UpperDigits)
    /\ call.hex = << "A", "B", "F", "F" >>
    /\ call.bytes = Some(<< 171, 255 >>)

-----------------------------------------------------------------------------
(* parseCSV on its own: applied once to each table of RawTables *)

\* a table has at most MaxRecords records
MaxRecords == 3

\* the Shot Number and emotion columns of a record
Labels ==
    { [ShotNumber |-> Some(<< "1" >>), emotion |-> undefined],
      [ShotNumber |-> Some(<< " ", "2", " " >>), emotion |-> Some(<< " ", "e", " " >>)] }

\* the records Papa.parse yields: a column may be missing from a record, be
\* empty, be blank, or have white space around its value
RawRecords ==
    { [ShotNumber |-> l.ShotNumber, Character |-> c, voice_id |-> v, text |-> t,
       emotion |-> l.emotion] :
        l \in Labels,
        c \in { undefined, Some(<< " " >>), Some(<< " ", "N" >>) },
        v \in { Some(<< >>), Some(<< "v", " " >>) },
        t \in { Some(<< " ", " " >>), Some(<< " ", "h", " ", "i", " " >>) } }

RawTables == SeqsUpTo(RawRecords, MaxRecords)

\* before the call: results.data is chosen
IngestInit ==
    /\ call \in { [pc |-> "parseCSV", data |-> d, rows |-> undefined] :
                    d \in RawTables }
    /\ items = << >>
    /\ isProcessing = FALSE
    /\ progress = [current |-> 0, total |-> 0]
    /\ error = null
    /\ apiKey = << >>
    /\ groupId = << >>
    /\ now = 0
    /\ parsing = 0
    /\ pendingItems = << >>
    /\ processedCount = 0
    /\ config = NoConfig
    /\ objectURLs = << >>
    /\ calls = << >>
    /\ replaced = FALSE

\* lines 9-21: the complete callback resolves the promise with validData
ParseCSV ==
    /\ call.pc = "parseCSV"
    /\ call' = [call EXCEPT !.pc = "resolved", !.rows = Some(parseCSV(call.data))]
    /\ UNCHANGED appVars

SpecIngest == IngestInit /\ [][ParseCSV]_vars

\* the field is there and has a character that is not white space
NonBlank(opt) == opt # undefined /\ \E k \in DOMAIN opt[1] : opt[1][k] # " "

AcceptedRecord(rec) ==
    NonBlank(rec.Character) /\ NonBlank(rec.voice_id) /\ NonBlank(rec.text)

\* t is s without its leading and trailing white space
IsTrimOf(t, s) ==
    IF s = undefined THEN t = undefined
    ELSE /\ t # undefined
         /\ \E i \in 0..Len(s[1]) : \E j \in i..Len(s[1]) :
              /\ t[1] = SubSeq(s[1], i + 1, j)
              /\ \A k \in 1..i : s[1][k] = " "
              /\ \A k \in (j + 1)..Len(s[1]) : s[1][k] = " "
              /\ i < j => (s[1][i + 1] # " " /\ s[1][j] # " ")

Columns == { "ShotNumber", "Character", "voice_id", "text", "emotion" }

\* C14: parseCSV keeps a record if and only if its Character, voice_id and
\* text are present and not blank: the rows it yields are as many as those
\* records, rows and dropped records add up to the input records, the n-th
\* row comes from the n-th such record, and each of its fields is the trimmed
\* field of that record.
C14_IngestionKeepsValidRecords ==
    call.pc = "resolved" =>
        LET data == call.data
            rows == call.rows[1]
            kept == { k \in DOMAIN data : AcceptedRecord(data[k]) }
            dropped == DOMAIN data \ kept
            nth(n) == CHOOSE k \in kept :
                         Cardinality({ j \in kept : j <= k }) = n
        IN  /\ Len(rows) = Cardinality(kept)
            /\ Len(rows) + Cardinality(dropped) = Len(data)
            /\ \A n \in DOMAIN rows : \A c \in Columns :
                 IsTrimOf(rows[n][c], data[nth(n)][c])

C14_Witness ==
    /\ call.pc = "resolved"
    /\ Len(call.data) = 3
    /\ AcceptedRecord(call.data[1])
    /\ ~AcceptedRecord(call.data[2])
    /\ call.data[2].Character = undefined
    /\ AcceptedRecord(call.data[3])
    /\ Len(call.rows[1]) = 2
    /\ call.rows[1][1].ShotNumber = Some(<< "2" >>)
    /\ call.rows[1][1].emotion = Some(<< "e" >>)
    /\ call.rows[1][1].text = Some(<< "h", " ", "i" >>)
    /\ call.rows[1][2].ShotNumber = Some(<< "1" >>)

-----------------------------------------------------------------------------
(* Properties of the run as a whole, checked under Spec *)

\* the invocations of the latest run that have settled
SettledCalls == { k \in DOMAIN calls : calls[k].outcome # "pending" }

\* C15: progress.total is the number of items the run selected when it
\* started, progress.current is the number of selected items whose
\* invocation has settled, by a return or by a failure: it is 0 when the run
\* starts, grows by one with each settled item and in no other way, never
\* exceeds total, and is total once the run has completed.
C15_ProgressCountsSettledItems ==
    /\ [](/\ progress.total = Len(pendingItems)
          /\ progress.current = Cardinality(SettledCalls)
          /\ progress.current <= progress.total
          /\ ~isProcessing => progress.current = progress.total)
    /\ [][ProcessBatch =>
            progress' = [current |-> 0,
                         total |-> Cardinality({ i \in DOMAIN items :
                                                   IsPendingOrFailed(items[i]) })]]_vars
    /\ [][~ProcessBatch =>
            /\ progress'.total = progress.total
            /\ progress'.current = progress.current
                 + (IF \E k \in DOMAIN calls : calls[k].outcome = "pending"
                                                  /\ calls'[k].outcome # "pending"
                    THEN 1 ELSE 0)]_vars

\* a run over two items of which the first has failed and the second is in
\* flight
C15_Witness ==
    /\ isProcessing
    /\ Len(pendingItems) = 2
    /\ calls[1].outcome = "thrown"
    /\ Len(calls) = 2 /\ calls[2].outcome = "pending"
    /\ progress = [current |-> 1, total |-> 2]

StatusSteps ==
    { << "idle", "loading" >>, << "error", "loading" >>,
      << "loading", "success" >>, << "loading", "error" >> }

\* C16: in a step that neither clears nor replaces the store, the status of
\* an item stays as it is or goes from idle or error to loading, or from
\* loading to success or error; an item that becomes loading has no error
\* message; an item that is success does not change.
C16_StatusTransitions ==
    [][(parsing' = parsing /\ Len(items') = Len(items)) =>
         \A i \in DOMAIN items :
            /\ \/ items'[i].status = items[i].status
               \/ << items[i].status, items'[i].status >> \in StatusSteps
            /\ (items'[i].status = "loading" /\ items[i].status # "loading")
                 => items'[i].errorMessage = undefined
            /\ items[i].status = "success" => items'[i] = items[i]]_vars

-----------------------------------------------------------------------------
(* The scheduler under the assumption that every fetch settles *)

\* an await of generateSpeech ends: the fetch it waits for resolves or rejects
FetchSettles ==
    \/ FetchResolves
    \/ FetchRejects
    \/ AudioFetchResolves
    \/ AudioFetchRejects

\* Spec, with no fetch left pending for ever
SpecLive == Init /\ [][Next]_vars /\ WF_vars(FetchSettles)

\* C17: a started run completes over the items it selected, whatever the
\* operator does meanwhile: while every fetch settles, isProcessing becomes
\* false again; until then the selection does not change and isProcessing
\* stays true unless every selected item has been invoked and has settled;
\* generateSpeech is invoked once for each selected item, in order.
C17_RunCompletes ==
    /\ isProcessing ~> ~isProcessing
    /\ [][isProcessing =>
            /\ pendingItems' = pendingItems
            /\ ~isProcessing' =>
                 /\ Len(calls') = Len(pendingItems)
                 /\ \A k \in DOMAIN calls' : calls'[k].outcome # "pending"]_vars
    /\ [](/\ Len(calls) <= Len(pendingItems)
          /\ \A k \in DOMAIN calls : calls[k].id = pendingItems[k].id
          /\ ~isProcessing => Len(calls) = Len(pendingItems))

\* a run over two items goes on with its second item after the store was
\* cleared and the API key erased
C17_Witness ==
    /\ isProcessing /\ replaced
    /\ items = << >> /\ apiKey = << >>
    /\ Len(pendingItems) = 2
    /\ Len(calls) = 2 /\ calls[2].outcome = "pending"
    /\ call.pc = "fetch"

-----------------------------------------------------------------------------
(* Properties of runs and of the store under the operator's controls, *)
(* checked under Spec                                                  *)

\* C18: runs started with the Generate Audio button do not overlap:
\* isProcessing is true exactly while an invocation of a run is in progress,
\* the button is disabled while isProcessing is true or a credential is
\* empty, and a run starts only when no run is active, every invocation of
\* the run before it having settled.
C18_RunsDoNotOverlap ==
    /\ [](isProcessing <=> call.pc # "none")
    /\ []((isProcessing \/ apiKey = << >> \/ groupId = << >>) => ~ENABLED ProcessBatch)
    /\ [][ProcessBatch =>
            /\ ~isProcessing
            /\ call.pc = "none"
            /\ Len(calls) = Len(pendingItems)
            /\ \A k \in DOMAIN calls : calls[k].outcome # "pending"]_vars

\* an earlier run is still active over a store that was cleared and filled
\* from a new table: the credentials are there, the new items are idle, and
\* the button is disabled
C18_Witness ==
    /\ isProcessing /\ replaced
    /\ Len(items) = 2
    /\ \A i \in DOMAIN items : items[i].status = "idle"
    /\ apiKey # << >> /\ groupId # << >>
    /\ ~ENABLED ProcessBatch

\* C19: after the store was cleared during a run, no step of that run
\* changes the store: it stays empty until a table is ingested, and the
\* items of a table ingested meanwhile stay as they were ingested.
C19_StaleRunLeavesStoreAlone ==
    [][(isProcessing /\ replaced /\ parsing' = parsing /\ Len(items') = Len(items))
          => items' = items]_vars

====
